---- MODULE Spec2Model ----
(***************************************************************************)
(* docker-watcher: the watch loop of src/main.go.  The process subscribes  *)
(* to the docker event stream, filters container exits, inspects the       *)
(* container, formats a ContainerEvent and hands it to one of two sinks.   *)
(*                                                                         *)
(* The docker daemon (cli.Events, cli.ContainerInspect), the statsd client *)
(* (c.Event), the json encoder and the operating system (signals) are the  *)
(* environment: their answers are chosen with \E from small sets.          *)
(***************************************************************************)
EXTENDS Naturals, Sequences, FiniteSets, TLC

(***************************************************************************)
(* Bounds of the model.                                                    *)
(***************************************************************************)
\* events the daemon delivers on msgs in one run
MaxEvents == 2
\* errors the daemon delivers on errs in one run
MaxErrors == 1
\* zero values received from closed channels in one run
MaxSpin == 1

(***************************************************************************)
(* Values.                                                                 *)
(***************************************************************************)
\* a nil error
Nil == "<nil>"

\* the map of a message with no attributes (a nil map)
NoAttributes == [k \in {} |-> ""]

\* the zero events.Message, which a receive on a closed channel yields
ZeroMessage ==
    [Type |-> "", Action |-> "", From |-> "",
     Actor |-> [ID |-> "", Attributes |-> NoAttributes]]

\* the zero types.ContainerJSON
ZeroInspect == [Cmd |-> <<>>, Labels |-> NoAttributes]

\* ContainerEvent{}
ZeroContainerEvent == [Title |-> "", Body |-> "", ContainerID |-> "", Tags |-> <<>>]

WebAttrs(code) == [name |-> "web1", image |-> "nginx:latest", exitCode |-> code]

Web(type, action, attrs) ==
    [Type |-> type, Action |-> action, From |-> "nginx",
     Actor |-> [ID |-> "abc123", Attributes |-> attrs]]

Cache(type, action, attrs) ==
    [Type |-> type, Action |-> action, From |-> "redis",
     Actor |-> [ID |-> "def456", Attributes |-> attrs]]

\* the messages the daemon may deliver
Messages ==
    { Web("container", "die", WebAttrs("137")),
      Web("container", "die", WebAttrs("0")),
      Web("container", "die", [name |-> "web1", image |-> "nginx:latest"]),
      Cache("container", "exec_die", [name |-> "cache1", image |-> "redis:6", exitCode |-> "1"]),
      Web("container", "start", WebAttrs("137")),
      Cache("network", "die", [name |-> "bridge", exitCode |-> "137"]) }

\* the errors the daemon may deliver
Errors == {"unexpected EOF"}

\* the containers of the daemon: what a successful ContainerInspect answers
Containers ==
    [abc123 |-> [Cmd |-> <<"nginx", "-g", "daemon off;">>, Labels |-> [env |-> "prod"]],
     def456 |-> [Cmd |-> <<>>, Labels |-> [env |-> "prod", tier |-> "cache"]]]

\* the errors of a failed ContainerInspect
InspectErrors == {"No such container"}

\* the errors of a failed statsd send
SendErrors == {"write: connection refused"}

(***************************************************************************)
(* State.                                                                  *)
(***************************************************************************)
VARIABLES
    output,           \* flag -output
    debugEnv,         \* environment variable DEBUG
    version,          \* flag -version
    pc,               \* where main is
    running,          \* the process has not exited
    exitCause,        \* why the process exited
    subscriptions,    \* calls of cli.Events
    msgs,             \* the channel of events
    errs,             \* the channel of errors
    msgsClosed,       \* msgs is closed
    errsClosed,       \* errs is closed
    msg,              \* the local msg of the loop
    exitCode,         \* the local exitCode of the loop
    inspectResponse,  \* the local inspectResponse of the loop
    containerEvent,   \* the local containerEvent of the loop
    err,              \* the local err of the failing call
    stdout,           \* what was printed to standard output
    ddEvents,         \* the events the statsd client sent
    delivered,        \* history: the messages the daemon put on msgs
    recvd,            \* history: the messages the loop received
    errsRecvd,        \* history: the errors the loop received
    inspects          \* history: the container ids ContainerInspect was called with

vars ==
    <<output, debugEnv, version, pc, running, exitCause, subscriptions,
      msgs, errs, msgsClosed, errsClosed, msg, exitCode, inspectResponse,
      containerEvent, err, stdout, ddEvents, delivered, recvd, errsRecvd, inspects>>

config == <<output, debugEnv, version>>
channels == <<msgs, errs, msgsClosed, errsClosed>>
locals == <<msg, exitCode, inspectResponse, containerEvent>>
history == <<delivered, recvd, errsRecvd, inspects>>

(***************************************************************************)
(* Pure helpers.                                                           *)
(***************************************************************************)
\* m[k] of a Go map: the zero string when the key is absent
MapGet(m, k) == IF k \in DOMAIN m THEN m[k] ELSE ""

\* strings.Join(elems, sep)
RECURSIVE Join(_, _)
Join(elems, sep) ==
    IF elems = <<>> THEN ""
    ELSE IF Len(elems) = 1 THEN elems[1]
    ELSE elems[1] \o sep \o Join(Tail(elems), sep)

\* the orders in which range may visit the keys of a map
RECURSIVE KeyOrders(_)
KeyOrders(keys) ==
    IF keys = {} THEN {<<>>}
    ELSE UNION { { <<k>> \o rest : rest \in KeyOrders(keys \ {k}) } : k \in keys }

\* fmt.Sprintf("%s=%s", key, value) for the keys in the order visited
LabelTags(labels, order) ==
    [i \in 1..Len(order) |-> order[i] \o "=" \o labels[order[i]]]

\* line 113 without the test of msg.Type
IsAnyExit(m) ==
    m.Action = "die" \/ m.Action = "exec_die"

\* the condition of line 113
IsContainerExit(m) ==
    m.Type = "container" /\ (m.Action = "die" \/ m.Action = "exec_die")

\* line 115 with a test that the attribute is set
IsSetAndNonZero(code) ==
    code # "" /\ code # "0"

\* the condition of line 115
IsNonZero(code) ==
    code # "0"

\* the body with the fields of the earlier template: Name, Image, Exit Code, ID
FormatBodyTemplate(m, resp, code) ==
    "Name: " \o MapGet(m.Actor.Attributes, "name") \o "\n"
      \o "Image: " \o MapGet(m.Actor.Attributes, "image") \o "\n"
      \o "Exit Code: " \o code \o "\n"
      \o "ID: " \o m.Actor.ID \o "\n"

\* lines 145-149
FormatBody(m, resp, code) ==
    LET containerCmd == Join(resp.Cmd, " ")
        b1 == "Name: " \o MapGet(m.Actor.Attributes, "name") \o "\n"
        b2 == b1 \o "ID: " \o m.Actor.ID \o "\n"
        b3 == b2 \o "Image: " \o MapGet(m.Actor.Attributes, "image") \o "\n"
        b4 == b3 \o "Cmd: " \o containerCmd \o "\n"
    IN  b4 \o "Exit Code: " \o code \o "\n"

\* the title of a die with the wording of an exec_die
FormatTitleProcess(m, code) ==
    IF m.Action = "die" \/ m.Action = "exec_die"
    THEN m.From \o " container process exited non-zero: " \o code
    ELSE ""

\* lines 151-155
FormatTitle(m, code) ==
    IF m.Action = "die"
    THEN m.From \o " container exited non-zero: " \o code
    ELSE IF m.Action = "exec_die"
    THEN m.From \o " container process exited non-zero: " \o code
    ELSE ""

\* lines 136-155
BuildContainerEvent(m, resp, code, order) ==
    [Title |-> FormatTitle(m, code),
     Body |-> FormatBody(m, resp, code),
     ContainerID |-> m.Actor.ID,
     Tags |-> LabelTags(resp.Labels, order)]

\* lines 70-74 with the title as the aggregation key
NewDatadogEventByTitle(e) ==
    [Title |-> e.Title, Text |-> e.Body, AggregationKey |-> e.Title,
     AlertType |-> "error", SourceTypeName |-> "DOCKER", Tags |-> e.Tags]

\* lines 70-74
NewDatadogEvent(e) ==
    [Title |-> e.Title, Text |-> e.Body, AggregationKey |-> e.ContainerID,
     AlertType |-> "error", SourceTypeName |-> "DOCKER", Tags |-> e.Tags]

(***************************************************************************)
(* The process.                                                            *)
(***************************************************************************)
Init ==
    /\ output \in {"datadog", "stdout"}
    /\ debugEnv \in {"", "pretty"}
    /\ version \in BOOLEAN
    /\ pc = "init"
    /\ running = TRUE
    /\ exitCause = "none"
    /\ subscriptions = 0
    /\ msgs = <<>>
    /\ errs = <<>>
    /\ msgsClosed = FALSE
    /\ errsClosed = FALSE
    /\ msg = ZeroMessage
    /\ exitCode = ""
    /\ inspectResponse = ZeroInspect
    /\ containerEvent = ZeroContainerEvent
    /\ err = Nil
    /\ stdout = <<>>
    /\ ddEvents = <<>>
    /\ delivered = <<>>
    /\ recvd = <<>>
    /\ errsRecvd = <<>>
    /\ inspects = <<>>

\* log.Fatal(e)
Fatal(e) ==
    /\ err' = e
    /\ running' = FALSE
    /\ exitCause' = "fatal"

\* main up to the loop: the version flag, the two clients, the subscription
Startup ==
    /\ running /\ pc = "init"
    /\ IF version
       THEN /\ stdout' = Append(stdout, [call |-> "Println", arg |-> "buildVersion"])
            /\ running' = FALSE
            /\ exitCause' = "return"
            /\ UNCHANGED <<pc, subscriptions, err>>
       ELSE \E e \in {Nil, "statsd.New", "client.NewClientWithOpts"} :
                IF e # Nil
                THEN /\ Fatal(e)
                     /\ UNCHANGED <<pc, subscriptions, stdout>>
                ELSE /\ pc' = "select"
                     /\ subscriptions' = subscriptions + 1
                     /\ UNCHANGED <<running, exitCause, err, stdout>>
    /\ UNCHANGED <<config, channels, locals, ddEvents, history>>

\* the goroutine of setupCloseHandler
Signal ==
    /\ running
    /\ stdout' = Append(stdout, [call |-> "Println", arg |-> "\r- Ctrl+C pressed, exiting"])
    /\ running' = FALSE
    /\ exitCause' = "signal"
    /\ UNCHANGED <<config, pc, subscriptions, channels, locals, err, ddEvents, history>>

\* the print of line 111
PrintError(e) == [call |-> "Printf error: %q", arg |-> e]

\* the receive of line 110: the next error, or nil once errs is closed and drained
RecvFromErrs ==
    \/ /\ errs # <<>>
       /\ errsRecvd' = Append(errsRecvd, Head(errs))
       /\ errs' = Tail(errs)
    \/ /\ errs = <<>> /\ errsClosed
       /\ Len(SelectSeq(errsRecvd, LAMBDA e : e = Nil)) < MaxSpin
       /\ errsRecvd' = Append(errsRecvd, Nil)
       /\ errs' = errs

\* case err := <-errs, with the error fatal
RecvErrFatal ==
    /\ running /\ pc = "select"
    /\ RecvFromErrs
    /\ stdout' = Append(stdout, PrintError(errsRecvd'[Len(errsRecvd')]))
    /\ Fatal(errsRecvd'[Len(errsRecvd')])
    /\ UNCHANGED <<config, pc, subscriptions, msgs, msgsClosed,
                   errsClosed, locals, ddEvents, delivered, recvd, inspects>>

\* case err := <-errs, with the loop left when errs is closed
RecvErrUntilClosed ==
    /\ running /\ pc = "select"
    /\ RecvFromErrs
    /\ stdout' = Append(stdout, PrintError(errsRecvd'[Len(errsRecvd')]))
    /\ IF errsRecvd'[Len(errsRecvd')] = Nil
       THEN running' = FALSE /\ exitCause' = "return"
       ELSE UNCHANGED <<running, exitCause>>
    /\ UNCHANGED <<config, pc, subscriptions, msgs, msgsClosed,
                   errsClosed, locals, err, ddEvents, delivered, recvd, inspects>>

\* case err := <-errs
RecvErr ==
    /\ running /\ pc = "select"
    /\ RecvFromErrs
    /\ stdout' = Append(stdout, PrintError(errsRecvd'[Len(errsRecvd')]))
    /\ UNCHANGED <<config, pc, running, exitCause, subscriptions, msgs, msgsClosed,
                   errsClosed, locals, err, ddEvents, delivered, recvd, inspects>>

\* case msg := <-msgs, with the filter of lines 113-115 and the call of line 117
RecvMsg ==
    /\ running /\ pc = "select"
    /\ \/ /\ msgs # <<>>
          /\ msg' = Head(msgs)
          /\ msgs' = Tail(msgs)
       \/ /\ msgs = <<>> /\ msgsClosed
          /\ Len(SelectSeq(recvd, LAMBDA m : m = ZeroMessage)) < MaxSpin
          /\ msg' = ZeroMessage
          /\ msgs' = msgs
    /\ recvd' = Append(recvd, msg')
    /\ IF IsContainerExit(msg')
       THEN /\ exitCode' = MapGet(msg'.Actor.Attributes, "exitCode")
            /\ IF IsNonZero(exitCode')
               THEN /\ pc' = "inspect"
                    /\ inspects' = Append(inspects, msg'.Actor.ID)
               ELSE /\ pc' = "select"
                    /\ inspects' = inspects
       ELSE /\ exitCode' = exitCode
            /\ pc' = "select"
            /\ inspects' = inspects
    /\ UNCHANGED <<config, running, exitCause, subscriptions, errs, msgsClosed, errsClosed,
                   inspectResponse, containerEvent, err, stdout, ddEvents,
                   delivered, errsRecvd>>

\* what ContainerInspect answers for a container id: an error, or its configuration
InspectAnswers(id) ==
    [err : InspectErrors, resp : {ZeroInspect}]
        \cup (IF id \in DOMAIN Containers
              THEN {[err |-> Nil, resp |-> Containers[id]]}
              ELSE {})

\* cli.ContainerInspect returns, with its error not looked at
InspectUnchecked ==
    /\ running /\ pc = "inspect"
    /\ \E a \in InspectAnswers(msg.Actor.ID) :
          /\ err' = a.err
          /\ inspectResponse' = a.resp
    /\ pc' = "format"
    /\ UNCHANGED <<config, running, exitCause, subscriptions, channels, msg, exitCode,
                   containerEvent, stdout, ddEvents, history>>

\* cli.ContainerInspect returns, lines 117-120
Inspect ==
    /\ running /\ pc = "inspect"
    /\ \E a \in InspectAnswers(msg.Actor.ID) :
          IF a.err # Nil
          THEN /\ Fatal(a.err)
               /\ UNCHANGED <<pc, inspectResponse>>
          ELSE /\ inspectResponse' = a.resp
               /\ pc' = "format"
               /\ UNCHANGED <<running, exitCause, err>>
    /\ UNCHANGED <<config, subscriptions, channels, msg, exitCode, containerEvent,
                   stdout, ddEvents, history>>

\* the debug dump and the ContainerEvent, lines 122-155
Format ==
    /\ running /\ pc = "format"
    /\ \E e \in (IF debugEnv # "" THEN {Nil, "json: unsupported value"} ELSE {Nil}) :
          IF e # Nil
          THEN /\ Fatal(e)
               /\ UNCHANGED <<pc, containerEvent, stdout>>
          ELSE /\ stdout' = IF debugEnv # ""
                            THEN Append(stdout, [call |-> "Printf \n%s\n%s\n",
                                                 arg |-> <<inspectResponse, msg>>])
                            ELSE stdout
               /\ \E order \in KeyOrders(DOMAIN inspectResponse.Labels) :
                     containerEvent' = BuildContainerEvent(msg, inspectResponse, exitCode, order)
               /\ pc' = "dispatch"
               /\ UNCHANGED <<running, exitCause, err>>
    /\ UNCHANGED <<config, subscriptions, channels, msg, exitCode, inspectResponse,
                   ddEvents, history>>

\* the print of line 160
PrintEvent(e) == [call |-> "Printf \n%q\n", arg |-> e]

\* lines 157-161 and datadogEvent, with a failed send logged and the loop going on
DispatchNoFatal ==
    /\ running /\ pc = "dispatch"
    /\ IF output = "datadog"
       THEN /\ stdout' = stdout
            /\ \E e \in {Nil} \cup SendErrors :
                  /\ err' = e
                  /\ ddEvents' = IF e = Nil
                                 THEN Append(ddEvents, NewDatadogEvent(containerEvent))
                                 ELSE ddEvents
       ELSE /\ stdout' = Append(stdout, PrintEvent(containerEvent))
            /\ UNCHANGED <<err, ddEvents>>
    /\ pc' = "select"
    /\ containerEvent' = ZeroContainerEvent
    /\ UNCHANGED <<config, running, exitCause, subscriptions, channels, msg, exitCode,
                   inspectResponse, history>>

\* lines 157-161 and datadogEvent, with the print not in an else
DispatchBoth ==
    /\ running /\ pc = "dispatch"
    /\ stdout' = Append(stdout, PrintEvent(containerEvent))
    /\ IF output = "datadog"
       THEN \E e \in {Nil} \cup SendErrors :
               IF e # Nil
               THEN /\ Fatal(e)
                    /\ UNCHANGED <<pc, ddEvents, containerEvent>>
               ELSE /\ ddEvents' = Append(ddEvents, NewDatadogEvent(containerEvent))
                    /\ pc' = "select"
                    /\ containerEvent' = ZeroContainerEvent
                    /\ UNCHANGED <<running, exitCause, err>>
       ELSE /\ pc' = "select"
            /\ containerEvent' = ZeroContainerEvent
            /\ UNCHANGED <<running, exitCause, err, ddEvents>>
    /\ UNCHANGED <<config, subscriptions, channels, msg, exitCode, inspectResponse, history>>

\* lines 157-161 and datadogEvent
Dispatch ==
    /\ running /\ pc = "dispatch"
    /\ IF output = "datadog"
       THEN /\ stdout' = stdout
            /\ \E e \in {Nil} \cup SendErrors :
                  IF e # Nil
                  THEN /\ Fatal(e)
                       /\ UNCHANGED <<pc, ddEvents, containerEvent>>
                  ELSE /\ ddEvents' = Append(ddEvents, NewDatadogEvent(containerEvent))
                       /\ pc' = "select"
                       /\ containerEvent' = ZeroContainerEvent
                       /\ UNCHANGED <<running, exitCause, err>>
       ELSE /\ stdout' = Append(stdout, PrintEvent(containerEvent))
            /\ pc' = "select"
            /\ containerEvent' = ZeroContainerEvent
            /\ UNCHANGED <<running, exitCause, err, ddEvents>>
    /\ UNCHANGED <<config, subscriptions, channels, msg, exitCode, inspectResponse, history>>

(***************************************************************************)
(* The docker daemon behind cli.Events.                                    *)
(***************************************************************************)
SourceEvent ==
    /\ running /\ subscriptions > 0
    /\ ~msgsClosed
    /\ msgs = <<>>
    /\ Len(delivered) < MaxEvents
    /\ \E m \in Messages :
          /\ msgs' = Append(msgs, m)
          /\ delivered' = Append(delivered, m)
    /\ UNCHANGED <<config, pc, running, exitCause, subscriptions, errs, msgsClosed,
                   errsClosed, locals, err, stdout, ddEvents, recvd, errsRecvd, inspects>>

SourceError ==
    /\ running /\ subscriptions > 0
    /\ ~errsClosed
    /\ errs = <<>>
    /\ Len(SelectSeq(errsRecvd, LAMBDA e : e # Nil)) < MaxErrors
    /\ \E e \in Errors : errs' = Append(errs, e)
    /\ UNCHANGED <<config, pc, running, exitCause, subscriptions, msgs, msgsClosed,
                   errsClosed, locals, err, stdout, ddEvents, history>>

SourceCloseErrs ==
    /\ running /\ subscriptions > 0
    /\ ~errsClosed
    /\ errsClosed' = TRUE
    /\ UNCHANGED <<config, pc, running, exitCause, subscriptions, msgs, errs, msgsClosed,
                   locals, err, stdout, ddEvents, history>>

SourceCloseMsgs ==
    /\ running /\ subscriptions > 0
    /\ ~msgsClosed
    /\ msgs = <<>>
    /\ msgsClosed' = TRUE
    /\ UNCHANGED <<config, pc, running, exitCause, subscriptions, msgs, errs, errsClosed,
                   locals, err, stdout, ddEvents, history>>

Next ==
    \/ Startup
    \/ Signal
    \/ RecvErr
    \/ RecvMsg
    \/ Inspect
    \/ Format
    \/ Dispatch
    \/ SourceEvent
    \/ SourceError
    \/ SourceCloseErrs
    \/ SourceCloseMsgs

Spec == Init /\ [][Next]_vars

\* the select of the loop chooses fairly among the ready cases; the calls return
FairSpec ==
    /\ Spec
    /\ WF_vars(RecvMsg)
    /\ WF_vars(Inspect)
    /\ WF_vars(Format)
    /\ WF_vars(Dispatch)

(***************************************************************************)
(* What the claims speak of, stated from the histories and the sinks.      *)
(***************************************************************************)
Last(seq) == seq[Len(seq)]

ExitCodeSet(m) == "exitCode" \in DOMAIN m.Actor.Attributes

\* the exit code attribute of a message, empty when it is not set
ExitCodeOf(m) == IF ExitCodeSet(m) THEN m.Actor.Attributes.exitCode ELSE ""

ContainerDied(m) == m.Type = "container" /\ m.Action \in {"die", "exec_die"}

\* reportable: a container exit whose exit code is not set to "0"
Reportable(m) == ContainerDied(m) /\ ~(ExitCodeSet(m) /\ ExitCodeOf(m) = "0")

\* reportable as first claimed: a container exit whose exit code is set and not "0"
ReportableIfSet(m) == ContainerDied(m) /\ ExitCodeSet(m) /\ ExitCodeOf(m) # "0"

ReportableRecvd == SelectSeq(recvd, Reportable)

ContainerIDs(seq) == [i \in 1..Len(seq) |-> seq[i].Actor.ID]

\* the reports the console sink printed
ConsoleReports ==
    LET printed == SelectSeq(stdout, LAMBDA o : o.call = "Printf \n%q\n")
    IN  [i \in 1..Len(printed) |-> printed[i].arg]

\* the reports the metrics sink sent, as the ContainerEvent they were made from
MetricsReports ==
    [i \in 1..Len(ddEvents) |->
        [Title |-> ddEvents[i].Title, Body |-> ddEvents[i].Text,
         ContainerID |-> ddEvents[i].AggregationKey, Tags |-> ddEvents[i].Tags]]

\* the reports handed to the sink that the configuration selects
Reports == IF output = "datadog" THEN MetricsReports ELSE ConsoleReports

\* 1 while the last reportable message received has not been handed to a sink
InFlight == IF pc \in {"inspect", "format", "dispatch"} THEN 1 ELSE 0

Range(seq) == { seq[i] : i \in 1..Len(seq) }

ExpectedTags(labels) == { k \o "=" \o labels[k] : k \in DOMAIN labels }

ExpectedTitle(m) ==
    IF m.Action = "die" THEN m.From \o " container exited non-zero: " \o ExitCodeOf(m)
    ELSE m.From \o " container process exited non-zero: " \o ExitCodeOf(m)

RECURSIVE SpaceJoined(_)
SpaceJoined(words) ==
    IF Len(words) = 0 THEN ""
    ELSE IF Len(words) = 1 THEN words[1]
    ELSE SpaceJoined(SubSeq(words, 1, Len(words) - 1)) \o " " \o words[Len(words)]

ExpectedBody(m) ==
    "Name: " \o (IF "name" \in DOMAIN m.Actor.Attributes THEN m.Actor.Attributes.name ELSE "")
        \o "\nID: " \o m.Actor.ID
        \o "\nImage: " \o (IF "image" \in DOMAIN m.Actor.Attributes THEN m.Actor.Attributes.image ELSE "")
        \o "\nCmd: " \o SpaceJoined(Containers[m.Actor.ID].Cmd)
        \o "\nExit Code: " \o ExitCodeOf(m) \o "\n"

\* the event of the testable properties: nginx, abc123, web1, exit code 137
Nginx137 == Web("container", "die", WebAttrs("137"))
NginxNoCode == Web("container", "die", [name |-> "web1", image |-> "nginx:latest"])
RedisExec1 ==
    Cache("container", "exec_die", [name |-> "cache1", image |-> "redis:6", exitCode |-> "1"])

\* the reports so far, and the ContainerEvent made and waiting for its sink
MadeEvents ==
    IF pc = "dispatch" THEN Append(Reports, containerEvent) ELSE Reports

(***************************************************************************)
(* C1 (as first stated): a container die or exec_die is inspected and      *)
(* dispatched if and only if its exitCode attribute is present and is not  *)
(* "0"; a message with no exitCode attribute is not reported.              *)
(***************************************************************************)
C1_ReportedIffExitCodePresentAndNotZero ==
    inspects = ContainerIDs(SelectSeq(recvd, ReportableIfSet))

(***************************************************************************)
(* C1 (amended): a container die or exec_die is inspected, and once        *)
(* handled to the end dispatched, if and only if its exitCode attribute is *)
(* not "0", an absent attribute reading as the empty string: exit code "0" *)
(* is never reported, "137" is reported, and a message with no exitCode    *)
(* attribute is reported.                                                  *)
(***************************************************************************)
C1_ReportedIffExitCodeNotZero ==
    /\ inspects = ContainerIDs(ReportableRecvd)
    /\ Len(Reports) + InFlight = Len(ReportableRecvd)

C1_Witness ==
    /\ recvd = <<Web("container", "die", WebAttrs("0")), NginxNoCode>>
    /\ inspects = <<"abc123">>
    /\ pc = "select"
    /\ Len(Reports) = 1

(***************************************************************************)
(* C2: receiving a message whose Type is not "container", or whose Action  *)
(* is neither "die" nor "exec_die", causes no inspect and no dispatch, and *)
(* leaves the loop at its select with the process running.                 *)
(***************************************************************************)
C2_OtherMessagesIgnored ==
    [][ (recvd' # recvd /\ ~ContainerDied(Last(recvd')))
          => /\ pc' = "select"
             /\ running'
             /\ UNCHANGED <<inspects, ddEvents, stdout, containerEvent>> ]_vars

C2_Witness ==
    /\ recvd = <<Cache("network", "die", [name |-> "bridge", exitCode |-> "137"]),
                 Web("container", "start", WebAttrs("137"))>>
    /\ inspects = <<>>
    /\ running /\ pc = "select"

(***************************************************************************)
(* C3: an error received on the error stream is printed and leaves the     *)
(* process running at its select; and every event the source delivers,     *)
(* whatever errors came before, leaves the channel only by being received  *)
(* by the loop, and eventually is, unless the process has exited.          *)
(***************************************************************************)
C3_ErrorsDoNotStopTheLoop ==
    /\ [][ errsRecvd' # errsRecvd
             => /\ running' /\ pc' = "select" /\ exitCause' = "none"
                /\ stdout' = Append(stdout, [call |-> "Printf error: %q", arg |-> Last(errsRecvd')])
                /\ UNCHANGED <<msgs, recvd, inspects, ddEvents>> ]_vars
    /\ [][ (msgs # <<>> /\ msgs' # msgs) => recvd' = Append(recvd, Head(msgs)) ]_vars
    /\ (msgs # <<>>) ~> (~running \/ msgs = <<>>)

C3_Witness ==
    /\ Len(errsRecvd) >= 1 /\ errsRecvd[1] = "unexpected EOF"
    /\ Len(stdout) >= 1 /\ stdout[1] = [call |-> "Printf error: %q", arg |-> "unexpected EOF"]
    /\ Len(recvd) >= 1 /\ Last(recvd) = Nginx137
    /\ Len(stdout) >= 2
    /\ running

(***************************************************************************)
(* C4: when ContainerInspect returns an error the process has exited, no   *)
(* ContainerEvent was made and the event reached no sink; a ContainerEvent *)
(* is made only after the inspect of its container succeeded.              *)
(***************************************************************************)
C4_InspectFailureIsFatal ==
    /\ err \in InspectErrors
          => /\ ~running /\ exitCause = "fatal"
             /\ containerEvent = ZeroContainerEvent
             /\ Len(ReportableRecvd) >= 1
             /\ Len(ddEvents) + Len(ConsoleReports) + 1 = Len(ReportableRecvd)
    /\ containerEvent # ZeroContainerEvent
          => /\ err \notin InspectErrors
             /\ pc = "dispatch"
             /\ inspectResponse = Containers[msg.Actor.ID]
             /\ Last(inspects) = msg.Actor.ID

C4_Witness ==
    /\ err = "No such container"
    /\ ~running
    /\ recvd = <<RedisExec1, Nginx137>>
    /\ Len(Reports) = 1

(***************************************************************************)
(* C5: with the metrics sink selected, every reportable message handled to *)
(* the end has exactly one event sent, in order, with the container id as  *)
(* aggregation key, alert type "error", source type "DOCKER" and one       *)
(* "key=value" tag per label of the inspected container.                   *)
(***************************************************************************)
C5_MetricsEvent ==
    output = "datadog" =>
        /\ Len(ddEvents) + InFlight = Len(ReportableRecvd)
        /\ \A j \in 1..Len(ddEvents) :
              LET labels == Containers[ReportableRecvd[j].Actor.ID].Labels
              IN  /\ ddEvents[j].AggregationKey = ReportableRecvd[j].Actor.ID
                  /\ ddEvents[j].AlertType = "error"
                  /\ ddEvents[j].SourceTypeName = "DOCKER"
                  /\ Range(ddEvents[j].Tags) = ExpectedTags(labels)
                  /\ Len(ddEvents[j].Tags) = Cardinality(DOMAIN labels)

C5_Witness ==
    /\ output = "datadog"
    /\ recvd = <<Nginx137, RedisExec1>>
    /\ Len(ddEvents) = 2
    /\ ddEvents[1].AggregationKey = "abc123"
    /\ ddEvents[1].Tags = <<"env=prod">>
    /\ ddEvents[2].AggregationKey = "def456"
    /\ ddEvents[2].Tags = <<"tier=cache", "env=prod">>

(***************************************************************************)
(* C6: the title of every report is "<from> container exited non-zero:     *)
(* <exitCode>" for a die and "<from> container process exited non-zero:    *)
(* <exitCode>" for an exec_die; it is never empty.                         *)
(***************************************************************************)
C6_TitleByAction ==
    \A j \in 1..Len(MadeEvents) :
        LET m == ReportableRecvd[j]
        IN  /\ MadeEvents[j].Title = ExpectedTitle(m)
            /\ MadeEvents[j].Title # ""
            /\ m = Nginx137 => MadeEvents[j].Title = "nginx container exited non-zero: 137"
            /\ m = RedisExec1 => MadeEvents[j].Title = "redis container process exited non-zero: 1"

C6_Witness ==
    /\ recvd = <<Nginx137, RedisExec1>>
    /\ Len(Reports) = 2
    /\ Reports[1].Title = "nginx container exited non-zero: 137"
    /\ Reports[2].Title = "redis container process exited non-zero: 1"

(***************************************************************************)
(* C7: the body of every report is the five lines Name, ID, Image, Cmd,    *)
(* Exit Code in that order, each ended by a newline, Cmd being the command *)
(* of the inspected container joined with single spaces.                   *)
(***************************************************************************)
C7_BodyFields ==
    \A j \in 1..Len(MadeEvents) :
        LET m == ReportableRecvd[j]
        IN  /\ MadeEvents[j].Body = ExpectedBody(m)
            /\ MadeEvents[j].Body # ""
            /\ m = Nginx137 =>
                  MadeEvents[j].Body =
                     "Name: web1\nID: abc123\nImage: nginx:latest\nCmd: nginx -g daemon off;\nExit Code: 137\n"

C7_Witness ==
    /\ recvd = <<RedisExec1, Nginx137>>
    /\ Len(Reports) = 2
    /\ Reports[1].Body = "Name: cache1\nID: def456\nImage: redis:6\nCmd: \nExit Code: 1\n"
    /\ Reports[2].Body =
          "Name: web1\nID: abc123\nImage: nginx:latest\nCmd: nginx -g daemon off;\nExit Code: 137\n"

(***************************************************************************)
(* C8: a failed send of the metrics sink is fatal, and an exited process   *)
(* takes no further step; with the console sink the dispatch always        *)
(* returns to the select with the process running.                         *)
(***************************************************************************)
C8_SinkFailurePolicy ==
    /\ [](err \in SendErrors
            => ~running /\ exitCause = "fatal" /\ output = "datadog" /\ pc = "dispatch")
    /\ [][ ~running => UNCHANGED vars ]_vars
    /\ [][ (output # "datadog" /\ pc = "dispatch" /\ <<pc, running, stdout>>' # <<pc, running, stdout>>)
             => \/ exitCause' = "signal" /\ pc' = "dispatch"
                \/ running' /\ pc' = "select" /\ Len(ConsoleReports') = Len(ConsoleReports) + 1 ]_vars

C8_Witness ==
    /\ output = "datadog"
    /\ err = "write: connection refused"
    /\ ~running
    /\ Len(recvd) = 1
    /\ msgs # <<>>

C8_WitnessConsole ==
    /\ output = "stdout"
    /\ Len(ConsoleReports) = 2
    /\ running

(***************************************************************************)
(* C9: the loop receives one event or one error per iteration, only at its *)
(* select, in the order delivered; the reports equal, in order and one for *)
(* one, the reportable messages received (the last still in flight or cut  *)
(* off by the exit of the process excepted); they all go to the one sink   *)
(* the output flag selects, which never changes.                           *)
(***************************************************************************)
C9_InOrderOneSink ==
    /\ [](/\ \A i \in 1..Len(recvd) :
                IF i <= Len(delivered) - Len(msgs)
                THEN recvd[i] = delivered[i]
                ELSE recvd[i] = ZeroMessage /\ msgsClosed
          /\ Len(Reports) + InFlight = Len(ReportableRecvd)
          /\ \A j \in 1..Len(Reports) :
                /\ Reports[j].ContainerID = ReportableRecvd[j].Actor.ID
                /\ Reports[j].Title = ExpectedTitle(ReportableRecvd[j])
          /\ output = "datadog" => ConsoleReports = <<>>
          /\ output # "datadog" => ddEvents = <<>>)
    /\ [][ /\ output' = output
           /\ (recvd' # recvd \/ errsRecvd' # errsRecvd)
                 => /\ pc = "select"
                    /\ Len(recvd') + Len(errsRecvd') = Len(recvd) + Len(errsRecvd) + 1
           /\ Len(Reports') <= Len(Reports) + 1
           /\ Len(Reports') > Len(Reports) => pc = "dispatch" /\ pc' = "select" ]_vars

C9_Witness ==
    /\ delivered = <<RedisExec1, Nginx137>>
    /\ Len(Reports) = 2
    /\ Reports[1].ContainerID = "def456"
    /\ Reports[2].ContainerID = "abc123"
    /\ Len(errsRecvd) = 1

(***************************************************************************)
(* C10: a zero value received from a closed channel leaves the process     *)
(* running at its select, with no inspect, no ContainerEvent and no report;*)
(* the process subscribes once and never again.                            *)
(***************************************************************************)
C10_ClosedStreamSpins ==
    /\ [](subscriptions <= 1)
    /\ [][ subscriptions' = subscriptions \/ pc = "init" ]_vars
    /\ [][ ( \/ (errsRecvd' # errsRecvd /\ Last(errsRecvd') = Nil)
             \/ (recvd' # recvd /\ Last(recvd') = ZeroMessage) )
             => /\ running' /\ pc' = "select" /\ exitCause' = "none"
                /\ UNCHANGED <<inspects, ddEvents, containerEvent, errsClosed, msgsClosed>>
                /\ ConsoleReports' = ConsoleReports ]_vars

C10_Witness ==
    /\ errsClosed /\ msgsClosed
    /\ errs = <<>> /\ msgs = <<>>
    /\ Len(recvd) = 2 /\ recvd[1] = Nginx137 /\ recvd[2] = ZeroMessage
    /\ Len(errsRecvd) >= 1 /\ Last(errsRecvd) = Nil
    /\ Len(Reports) = 1
    /\ running /\ pc = "select"
====
